---- MODULE Spec2Model ----
(***************************************************************************)
(* A model of the CHIP-8 interpreter of nevisdale/go-chip8                 *)
(* (package internal/chip8): the Chip8 struct, NewChip8, LoadRom, SetKey   *)
(* and Emulate, the one fetch-decode-execute step with its timer tick.     *)
(* The machine state is held in one variable per struct field; Emulate is  *)
(* computed on a record of those fields, statement by statement.           *)
(***************************************************************************)
EXTENDS Integers, Sequences, FiniteSets, TLC

(***************************************************************************)
(* Program constants                                                       *)
(***************************************************************************)
RamSizeBytes == 4096
EntryPoint == 512
RomMaxSizeBytes == RamSizeBytes - EntryPoint
ScreenWidth == 64
ScreenHeight == 32
ScreenSize == ScreenWidth * ScreenHeight
KeyPadSize == 16
StackMaxSize == 16
MaxUint8 == 255

StateRunning == 0
StatePaused == 1
StateQuit == 2

font ==
  << 240, 144, 144, 144, 240,
      32,  96,  32,  32, 112,
     240,  16, 240, 128, 240,
     240,  16, 240,  16, 240,
     144, 144, 240,  16,  16,
     240, 128, 240,  16, 240,
     240, 128, 240, 144, 240,
     240,  16,  32,  64,  64,
     240, 144, 240, 144, 240,
     240, 144, 240,  16, 240,
     240, 144, 240, 144, 144,
     224, 144, 224, 144, 224,
     240, 128, 128, 128, 240,
     224, 144, 144, 144, 224,
     240, 128, 240, 128, 240,
     240, 128, 240, 128, 128 >>

(***************************************************************************)
(* Fixed-width integer arithmetic of Go's uint8 and uint16                 *)
(***************************************************************************)
U8(v) == v % 256
U16(v) == v % 65536

Pow2(k) == <<1, 2, 4, 8, 16, 32, 64, 128, 256>>[k + 1]
Bit(v, k) == (v \div Pow2(k)) % 2

\* The bitwise operators of Go on two bytes, bit by bit.
RECURSIVE And8(_, _)
And8(a, b) ==
  IF a = 0 \/ b = 0 THEN 0
  ELSE (a % 2) * (b % 2) + 2 * And8(a \div 2, b \div 2)

RECURSIVE Or8(_, _)
Or8(a, b) ==
  IF a = 0 THEN b
  ELSE IF b = 0 THEN a
  ELSE (IF (a % 2) + (b % 2) > 0 THEN 1 ELSE 0) + 2 * Or8(a \div 2, b \div 2)

RECURSIVE Xor8(_, _)
Xor8(a, b) ==
  IF a = 0 THEN b
  ELSE IF b = 0 THEN a
  ELSE (((a % 2) + (b % 2)) % 2) + 2 * Xor8(a \div 2, b \div 2)

Min(a, b) == IF a < b THEN a ELSE b
Max(a, b) == IF a > b THEN a ELSE b

(***************************************************************************)
(* State: the fields of Chip8, the fate of the process, and a record of    *)
(* the call made last.                                                     *)
(***************************************************************************)
VARIABLES
  ram,          \* [RamSizeBytes]byte
  rom,          \* Rom{Name, Data}
  State,        \* run state
  Screen,       \* [ScreenSize]bool
  KeyPad,       \* [KeyPadSize]bool
  regsV,        \* [0x10]uint8
  regI,         \* uint16
  pc,           \* uint16
  stack,        \* [StackMaxSize]uint16
  sp,           \* uint8
  delayTimer,   \* uint8
  soundTimer,   \* uint8
  status,       \* "running", or how the process ended: "exit" (os.Exit(1)), "panic"
  last,         \* the call made last: its kind, the address and opcode fetched, its outcome
  calls,        \* the 2NNN instructions executed and not yet returned from: address, sp before
  dtInit,       \* delay timer after the last FX15 write (or at construction)
  dtCalls,      \* Emulate calls since
  stInit,       \* sound timer after the last FX18 write (or at construction)
  stCalls,      \* Emulate calls since
  steps,        \* number of Emulate calls made
  loads,        \* number of LoadRom calls made
  keyEvents,    \* number of SetKey calls made
  drawnOn       \* Screen as the last Emulate that fetched a DXYN found it

machine == <<ram, rom, State, Screen, KeyPad, regsV, regI, pc, stack, sp,
             delayTimer, soundTimer>>
history == <<last, calls, dtInit, dtCalls, stInit, stCalls, steps, loads, keyEvents,
             drawnOn>>
vars == <<machine, status, history>>

(***************************************************************************)
(* NewChip8                                                                *)
(***************************************************************************)
NoCall == [kind |-> "new", addr |-> 0, opcode |-> -1, arg |-> 0, outcome |-> "ok"]

NewChip8 ==
  [ ram        |-> [a \in 0 .. RamSizeBytes - 1 |->
                      IF a < Len(font) THEN font[a + 1] ELSE 0],
    rom        |-> [Name |-> "", Data |-> <<>>],
    State      |-> StateRunning,
    Screen     |-> [p \in 0 .. ScreenSize - 1 |-> FALSE],
    KeyPad     |-> [k \in 0 .. KeyPadSize - 1 |-> FALSE],
    regsV      |-> [r \in 0 .. 15 |-> 0],
    regI       |-> 0,
    pc         |-> EntryPoint,
    stack      |-> [s \in 0 .. StackMaxSize - 1 |-> 0],
    sp         |-> 0,
    delayTimer |-> 0,
    soundTimer |-> 0,
    outcome    |-> "ok" ]

\* The Chip8 value the variables hold.
Chip8 ==
  [ ram |-> ram, rom |-> rom, State |-> State, Screen |-> Screen, KeyPad |-> KeyPad,
    regsV |-> regsV, regI |-> regI, pc |-> pc, stack |-> stack, sp |-> sp,
    delayTimer |-> delayTimer, soundTimer |-> soundTimer, outcome |-> "ok",
    playSound |-> FALSE, cells |-> {} ]

\* The variables take the fields of c; outcome decides the fate of the process.
Becomes(c) ==
  /\ ram' = c.ram
  /\ rom' = c.rom
  /\ State' = c.State
  /\ Screen' = c.Screen
  /\ KeyPad' = c.KeyPad
  /\ regsV' = c.regsV
  /\ regI' = c.regI
  /\ pc' = c.pc
  /\ stack' = c.stack
  /\ sp' = c.sp
  /\ delayTimer' = c.delayTimer
  /\ soundTimer' = c.soundTimer
  /\ status' = IF c.outcome \in {"exit", "panic"} THEN c.outcome ELSE "running"

(***************************************************************************)
(* LoadRom                                                                 *)
(***************************************************************************)
\* copy(dst[from:], src): min(len(dst) - from, len(src)) bytes are copied.
CopyAt(dst, from, src) ==
  [a \in 0 .. RamSizeBytes - 1 |->
     IF a >= from /\ a - from < Len(src) THEN src[a - from + 1] ELSE dst[a]]

\* c.rom = rom; copy(c.ram[c.pc:], rom.Data). Slicing past the end of ram panics.
LoadRomOn(c, r) ==
  LET c1 == [c EXCEPT !.rom = r]
  IN  IF c1.pc > RamSizeBytes
        THEN [c1 EXCEPT !.outcome = "panic"]
        ELSE [c1 EXCEPT !.ram = CopyAt(c1.ram, c1.pc, r.Data)]

\* NewRomFromFile, after the file was read: the size check and the Rom it builds.
NewRomFromFile(name, data) ==
  IF Len(data) > RomMaxSizeBytes
    THEN [err |-> TRUE, rom |-> [Name |-> "", Data |-> <<>>]]
    ELSE [err |-> FALSE, rom |-> [Name |-> name, Data |-> data]]

(***************************************************************************)
(* SetKey                                                                  *)
(***************************************************************************)
\* A SetKey that masks the key into range and checks nothing.
SetKeyOn_Masked(c, key, isPressed) ==
  [c EXCEPT !.KeyPad[key % KeyPadSize] = isPressed]

SetKeyOn(c, key, isPressed) ==
  IF key >= KeyPadSize
    THEN c
    ELSE [c EXCEPT !.KeyPad[key] = isPressed]

(***************************************************************************)
(* Emulate: the instructions                                               *)
(***************************************************************************)
Fatal(c) == [c EXCEPT !.outcome = "exit"]
Panic(c) == [c EXCEPT !.outcome = "panic"]

clearScreen(c) == [c EXCEPT !.Screen = [p \in 0 .. ScreenSize - 1 |-> FALSE]]

\* Op00EE reading the slot before it decrements sp.
Op00EE_ReadBeforeDec(c) ==
  IF c.sp = 0
    THEN Fatal(c)
    ELSE LET c1 == [c EXCEPT !.pc = c.stack[c.sp % StackMaxSize]]
         IN  [c1 EXCEPT !.sp = c1.sp - 1]

Op00EE(c) ==
  IF c.sp = 0
    THEN Fatal(c)
    ELSE LET c1 == [c EXCEPT !.sp = c.sp - 1]
         IN  [c1 EXCEPT !.pc = c1.stack[c1.sp]]

Op0NNN(c, nn) ==
  CASE nn = 224 -> clearScreen(c)
    [] nn = 238 -> Op00EE(c)
    [] OTHER    -> c

Op1NNN(c, nnn) == [c EXCEPT !.pc = nnn]

\* Op2NNN with the capacity check off by one.
Op2NNN_LateCheck(c, nnn) ==
  IF c.sp > StackMaxSize
    THEN Fatal(c)
    ELSE LET c1 == [c EXCEPT !.stack = [s \in DOMAIN c.stack \cup {c.sp} |->
                                          IF s = c.sp THEN c.pc ELSE c.stack[s]]]
             c2 == [c1 EXCEPT !.sp = c1.sp + 1]
         IN  [c2 EXCEPT !.pc = nnn]

Op2NNN(c, nnn) ==
  IF c.sp = StackMaxSize
    THEN Fatal(c)
    ELSE LET c1 == [c EXCEPT !.stack[c.sp] = c.pc]
             c2 == [c1 EXCEPT !.sp = c1.sp + 1]
         IN  [c2 EXCEPT !.pc = nnn]

Skip(c) == [c EXCEPT !.pc = U16(c.pc + 2)]

Op3XNN(c, x, nn) == IF c.regsV[x] = nn THEN Skip(c) ELSE c

\* A 4XNN with the test of 3XNN.
Op4XNN_Equal(c, x, nn) == IF c.regsV[x] = nn THEN Skip(c) ELSE c

Op4XNN(c, x, nn) == IF c.regsV[x] # nn THEN Skip(c) ELSE c
Op5XY0(c, x, y, n) ==
  IF n = 0
    THEN IF c.regsV[x] = c.regsV[y] THEN Skip(c) ELSE c
    ELSE c
Op9XY0(c, x, y, n) ==
  IF n = 0
    THEN IF c.regsV[x] # c.regsV[y] THEN Skip(c) ELSE c
    ELSE c

Op6XNN(c, x, nn) == [c EXCEPT !.regsV[x] = nn]

\* A 7XNN that reports its carry in VF, as 8XY4 does.
Op7XNN_Carry(c, x, nn) ==
  [c EXCEPT !.regsV = [[@ EXCEPT ![15] = IF c.regsV[x] + nn > MaxUint8 THEN 1 ELSE 0]
                          EXCEPT ![x] = U8(c.regsV[x] + nn)]]

Op7XNN(c, x, nn) == [c EXCEPT !.regsV[x] = U8(c.regsV[x] + nn)]

Op8XY0(c, x, y) == [c EXCEPT !.regsV[x] = c.regsV[y]]
Op8XY1(c, x, y) == [c EXCEPT !.regsV[x] = Or8(c.regsV[x], c.regsV[y])]
Op8XY2(c, x, y) == [c EXCEPT !.regsV[x] = And8(c.regsV[x], c.regsV[y])]
Op8XY3(c, x, y) == [c EXCEPT !.regsV[x] = Xor8(c.regsV[x], c.regsV[y])]

\* c.regsV[0xf] = 0; if MaxUint8-c.regsV[x] < c.regsV[y] { c.regsV[0xf] = 1 };
\* c.regsV[x] += c.regsV[y]: each statement reads the registers as the one before left them.
Op8XY4(c, x, y) ==
  LET c1 == [c EXCEPT !.regsV[15] = 0]
      c2 == IF MaxUint8 - c1.regsV[x] < c1.regsV[y]
              THEN [c1 EXCEPT !.regsV[15] = 1]
              ELSE c1
  IN  [c2 EXCEPT !.regsV[x] = U8(c2.regsV[x] + c2.regsV[y])]

Op8XY5(c, x, y) ==
  LET c1 == [c EXCEPT !.regsV[15] = 0]
      c2 == IF c1.regsV[x] >= c1.regsV[y]
              THEN [c1 EXCEPT !.regsV[15] = 1]
              ELSE c1
  IN  [c2 EXCEPT !.regsV[x] = U8(c2.regsV[x] - c2.regsV[y])]

\* Op8XY6 with the flag taken after the shift.
Op8XY6_FlagAfterShift(c, x) ==
  LET c1 == [c EXCEPT !.regsV[x] = c.regsV[x] \div 2]
  IN  [c1 EXCEPT !.regsV[15] = And8(c1.regsV[x], 1)]

Op8XY6(c, x) ==
  LET c1 == [c EXCEPT !.regsV[15] = And8(c.regsV[x], 1)]
  IN  [c1 EXCEPT !.regsV[x] = c1.regsV[x] \div 2]

Op8XY7(c, x, y) ==
  LET c1 == [c EXCEPT !.regsV[15] = 0]
      c2 == IF c1.regsV[y] >= c1.regsV[x]
              THEN [c1 EXCEPT !.regsV[15] = 1]
              ELSE c1
  IN  [c2 EXCEPT !.regsV[x] = U8(c2.regsV[y] - c2.regsV[x])]

\* Op8XYE with the flag taken after the shift.
Op8XYE_FlagAfterShift(c, x) ==
  LET c1 == [c EXCEPT !.regsV[x] = U8(c.regsV[x] * 2)]
      c2 == [c1 EXCEPT !.regsV[15] = 0]
  IN  IF And8(c2.regsV[x], 128) > 0 THEN [c2 EXCEPT !.regsV[15] = 1] ELSE c2

Op8XYE(c, x) ==
  LET c1 == [c EXCEPT !.regsV[15] = 0]
      c2 == IF And8(c1.regsV[x], 128) > 0
              THEN [c1 EXCEPT !.regsV[15] = 1]
              ELSE c1
  IN  [c2 EXCEPT !.regsV[x] = U8(c2.regsV[x] * 2)]

Op8XYN(c, x, y, n) ==
  CASE n = 0  -> Op8XY0(c, x, y)
    [] n = 1  -> Op8XY1(c, x, y)
    [] n = 2  -> Op8XY2(c, x, y)
    [] n = 3  -> Op8XY3(c, x, y)
    [] n = 4  -> Op8XY4(c, x, y)
    [] n = 5  -> Op8XY5(c, x, y)
    [] n = 6  -> Op8XY6(c, x)
    [] n = 7  -> Op8XY7(c, x, y)
    [] n = 14 -> Op8XYE(c, x)
    [] OTHER  -> c

OpANNN(c, nnn) == [c EXCEPT !.regI = nnn]
OpBNNN(c, nnn) == [c EXCEPT !.pc = U16(nnn + c.regsV[0])]
OpCXNN(c, x, nn, rnd) == [c EXCEPT !.regsV[x] = And8(U8(rnd), nn)]

(***************************************************************************)
(* DXYN: the two loops of the draw, row by row and pixel by pixel          *)
(***************************************************************************)
\* An inner loop that sets pixels where the sprite has a bit, and flips none.
RECURSIVE DrawPixels_Or(_, _, _, _, _)
DrawPixels_Or(c, spriteData, posY, posXi, j) ==
  IF j < 0
    THEN c
    ELSE LET sprPixelOn == Bit(spriteData, j) = 1
             posScreen == posY * ScreenWidth + posXi
             c1 == IF sprPixelOn /\ c.Screen[posScreen]
                     THEN [c EXCEPT !.regsV[15] = 1]
                     ELSE c
             c2 == [c1 EXCEPT !.Screen[posScreen] = (c1.Screen[posScreen] \/ sprPixelOn)]
         IN  IF posXi + 1 >= ScreenWidth
               THEN c2
               ELSE DrawPixels_Or(c2, spriteData, posY, posXi + 1, j - 1)

\* An inner loop that goes on in column 0 of the row after column 63.
RECURSIVE DrawPixels_Wraps(_, _, _, _, _)
DrawPixels_Wraps(c, spriteData, posY, posXi, j) ==
  IF j < 0
    THEN c
    ELSE LET sprPixelOn == Bit(spriteData, j) = 1
             posScreen == posY * ScreenWidth + posXi
             c1 == IF sprPixelOn /\ c.Screen[posScreen]
                     THEN [c EXCEPT !.regsV[15] = 1]
                     ELSE c
             c2 == [c1 EXCEPT !.Screen[posScreen] = (c1.Screen[posScreen] # sprPixelOn)]
         IN  DrawPixels_Wraps(c2, spriteData, posY, (posXi + 1) % ScreenWidth, j - 1)

\* The inner loop from bit j down to bit 0 of spriteData, starting at column posXi.
\* cells collects the <<row, column>> of every c.Screen[posScreen] of the call;
\* an index outside the array panics.
RECURSIVE DrawPixels(_, _, _, _, _)
DrawPixels(c, spriteData, posY, posXi, j) ==
  IF j < 0
    THEN c
    ELSE LET sprPixelOn == Bit(spriteData, j) = 1
             posScreen == posY * ScreenWidth + posXi
             c0 == [c EXCEPT !.cells = @ \cup {<<posY, posXi>>}]
         IN  IF posScreen >= ScreenSize
               THEN Panic(c0)
               ELSE LET c1 == IF sprPixelOn /\ c0.Screen[posScreen]
                                THEN [c0 EXCEPT !.regsV[15] = 1]
                                ELSE c0
                        c2 == [c1 EXCEPT !.Screen[posScreen] =
                                            (c1.Screen[posScreen] # sprPixelOn)]
                    IN  IF posXi + 1 >= ScreenWidth
                          THEN c2
                          ELSE DrawPixels(c2, spriteData, posY, posXi + 1, j - 1)

\* The outer loop from row i on; reading the sprite byte outside ram panics.
RECURSIVE DrawRows(_, _, _, _, _)
DrawRows(c, n, posX, posY, i) ==
  IF i >= n
    THEN c
    ELSE LET addr == U16(c.regI + i)
         IN  IF addr >= RamSizeBytes
               THEN Panic(c)
               ELSE LET c1 == DrawPixels(c, c.ram[addr], posY, posX, 7)
                    IN  IF c1.outcome = "panic" \/ posY + 1 >= ScreenHeight
                          THEN c1
                          ELSE DrawRows(c1, n, posX, posY + 1, i + 1)

\* A draw that takes Vx and Vy as they are, without the masks.
OpDXYN_NoMask(c, x, y, n) ==
  LET c1 == [c EXCEPT !.regsV[15] = 0]
  IN  DrawRows(c1, n, c.regsV[x], c.regsV[y], 0)

\* A draw that leaves VF as it finds it unless a pixel collides.
OpDXYN_KeepsFlag(c, x, y, n) ==
  LET posX == And8(c.regsV[x], ScreenWidth - 1)
      posY == And8(c.regsV[y], ScreenHeight - 1)
  IN  DrawRows(c, n, posX, posY, 0)

OpDXYN(c, x, y, n) ==
  LET posX == And8(c.regsV[x], ScreenWidth - 1)
      posY == And8(c.regsV[y], ScreenHeight - 1)
      c1 == [c EXCEPT !.regsV[15] = 0]
  IN  DrawRows(c1, n, posX, posY, 0)

(***************************************************************************)
(* EXNN and FXNN                                                           *)
(***************************************************************************)
OpEX9E(c, x) ==
  IF c.regsV[x] < 16 /\ c.KeyPad[c.regsV[x]] THEN Skip(c) ELSE c

\* An EXA1 with the test of EX9E.
OpEXA1_Pressed(c, x) ==
  IF c.regsV[x] < 16 /\ c.KeyPad[c.regsV[x]] THEN Skip(c) ELSE c

OpEXA1(c, x) ==
  IF c.regsV[x] < 16 /\ ~c.KeyPad[c.regsV[x]] THEN Skip(c) ELSE c

OpEXNN(c, x, nn) ==
  CASE nn = 158 -> OpEX9E(c, x)
    [] nn = 161 -> OpEXA1(c, x)
    [] OTHER    -> c

OpFX07(c, x) == [c EXCEPT !.regsV[x] = c.delayTimer]

\* The scan for the first pressed key; with none pressed the pc is rewound and
\* Emulate returns at once.
PressedKeys(c) == {k \in 0 .. KeyPadSize - 1 : c.KeyPad[k]}

\* A scan from key F downwards.
FirstPressed_Highest(c) ==
  CHOOSE k \in PressedKeys(c) : \A k2 \in PressedKeys(c) : k >= k2

FirstPressed(c) == CHOOSE k \in PressedKeys(c) : \A k2 \in PressedKeys(c) : k <= k2

\* A wait that does not rewind the pc.
OpFX0A_NoRewind(c, x) ==
  IF PressedKeys(c) = {}
    THEN [c EXCEPT !.outcome = "wait"]
    ELSE [c EXCEPT !.regsV[x] = FirstPressed(c)]

\* A wait that takes the key it reads off the keypad.
OpFX0A_ConsumesKey(c, x) ==
  IF PressedKeys(c) = {}
    THEN [c EXCEPT !.pc = U16(c.pc - 2), !.outcome = "wait"]
    ELSE [c EXCEPT !.regsV[x] = FirstPressed(c), !.KeyPad[FirstPressed(c)] = FALSE]

OpFX0A(c, x) ==
  IF PressedKeys(c) = {}
    THEN [c EXCEPT !.pc = U16(c.pc - 2), !.outcome = "wait"]
    ELSE [c EXCEPT !.regsV[x] = FirstPressed(c)]

OpFX15(c, x) == [c EXCEPT !.delayTimer = c.regsV[x]]
OpFX18(c, x) == [c EXCEPT !.soundTimer = c.regsV[x]]
OpFX1E(c, x) == [c EXCEPT !.regI = U16(c.regI + c.regsV[x])]
OpFX29(c, x) == [c EXCEPT !.regI = U16(c.regsV[x] * 5)]

\* A write of one byte of ram; an address outside ram panics.
Poke(c, addr, v) ==
  IF c.outcome = "panic"
    THEN c
    ELSE IF addr >= RamSizeBytes
           THEN Panic(c)
           ELSE [c EXCEPT !.ram[addr] = v]

\* FX33 writing the hundreds once more after the three digits.
OpFX33_FourBytes(c, x) ==
  LET c100 == c.regsV[x] \div 100
      c10 == U8(c.regsV[x] - U8(c100 * 100)) \div 10
      c1 == U8(U8(c.regsV[x] - U8(c100 * 100)) - U8(c10 * 10))
  IN  Poke(Poke(Poke(Poke(c, c.regI, c100), U16(c.regI + 1), c10),
                U16(c.regI + 2), c1), U16(c.regI + 3), c100)

OpFX33(c, x) ==
  LET c100 == c.regsV[x] \div 100
      c10 == U8(c.regsV[x] - U8(c100 * 100)) \div 10
      c1 == U8(U8(c.regsV[x] - U8(c100 * 100)) - U8(c10 * 10))
  IN  Poke(Poke(Poke(c, c.regI, c100), U16(c.regI + 1), c10), U16(c.regI + 2), c1)

RECURSIVE StoreRegs(_, _, _)
StoreRegs(c, x, i) ==
  IF i > x \/ c.outcome = "panic"
    THEN c
    ELSE StoreRegs(Poke(c, U16(c.regI + i), c.regsV[i]), x, i + 1)

OpFX55(c, x) == StoreRegs(c, x, 0)

RECURSIVE LoadRegs(_, _, _)
LoadRegs(c, x, i) ==
  IF i > x
    THEN c
    ELSE LET addr == U16(c.regI + i)
         IN  IF addr >= RamSizeBytes
               THEN Panic(c)
               ELSE LoadRegs([c EXCEPT !.regsV[i] = c.ram[addr]], x, i + 1)

\* An FX65 that leaves I behind the last byte read, as the first interpreters did.
OpFX65_MovesI(c, x) ==
  [LoadRegs(c, x, 0) EXCEPT !.regI = U16(c.regI + x + 1)]

OpFX65(c, x) == LoadRegs(c, x, 0)

OpFXNN(c, x, nn) ==
  CASE nn = 7   -> OpFX07(c, x)
    [] nn = 10  -> OpFX0A(c, x)
    [] nn = 21  -> OpFX15(c, x)
    [] nn = 24  -> OpFX18(c, x)
    [] nn = 30  -> OpFX1E(c, x)
    [] nn = 41  -> OpFX29(c, x)
    [] nn = 51  -> OpFX33(c, x)
    [] nn = 85  -> OpFX55(c, x)
    [] nn = 101 -> OpFX65(c, x)
    [] OTHER    -> c

(***************************************************************************)
(* Emulate: fetch, decode, execute, timer tick                             *)
(***************************************************************************)
Typ(opcode) == (opcode \div 4096) % 16
NNN(opcode) == opcode % 4096
NN(opcode) == opcode % 256
N(opcode) == opcode % 16
X(opcode) == (opcode \div 256) % 16
Y(opcode) == (opcode \div 16) % 16

Execute(c, opcode, rnd) ==
  LET typ == Typ(opcode)
      nnn == NNN(opcode)
      nn == NN(opcode)
      n == N(opcode)
      x == X(opcode)
      y == Y(opcode)
  IN  CASE typ = 0  -> Op0NNN(c, nn)
        [] typ = 1  -> Op1NNN(c, nnn)
        [] typ = 2  -> Op2NNN(c, nnn)
        [] typ = 3  -> Op3XNN(c, x, nn)
        [] typ = 4  -> Op4XNN(c, x, nn)
        [] typ = 5  -> Op5XY0(c, x, y, n)
        [] typ = 6  -> Op6XNN(c, x, nn)
        [] typ = 7  -> Op7XNN(c, x, nn)
        [] typ = 8  -> Op8XYN(c, x, y, n)
        [] typ = 9  -> Op9XY0(c, x, y, n)
        [] typ = 10 -> OpANNN(c, nnn)
        [] typ = 11 -> OpBNNN(c, nnn)
        [] typ = 12 -> OpCXNN(c, x, nn, rnd)
        [] typ = 13 -> OpDXYN(c, x, y, n)
        [] typ = 14 -> OpEXNN(c, x, nn)
        [] typ = 15 -> OpFXNN(c, x, nn)

\* A tick that decrements without looking, so that 0 wraps to 255.
TimerTick_Wraps(c) ==
  [c EXCEPT !.delayTimer = U8(c.delayTimer - 1),
            !.playSound = (c.soundTimer = 1),
            !.soundTimer = U8(c.soundTimer - 1)]

\* playSound: log.Println("PLAY SOUND") was reached in this call.
TimerTick(c) ==
  LET c1 == IF c.delayTimer > 0 THEN [c EXCEPT !.delayTimer = c.delayTimer - 1] ELSE c
  IN  IF c1.soundTimer > 0
        THEN [c1 EXCEPT !.playSound = (c1.soundTimer = 1),
                        !.soundTimer = c1.soundTimer - 1]
        ELSE c1

\* Whether Emulate gets to fetch an opcode at c.pc, and the opcode it fetches.
Fetches(c) == c.pc < RamSizeBytes /\ c.pc + 1 < RamSizeBytes
Fetch(c) == c.ram[c.pc] * 256 + c.ram[c.pc + 1]

\* An Emulate that ticks the timers before it executes the instruction.
EmulateOn_TickFirst(c, rnd) ==
  IF c.pc >= RamSizeBytes
    THEN [c EXCEPT !.outcome = "halt"]
    ELSE IF U16(c.pc + 1) >= RamSizeBytes
           THEN Panic(c)
           ELSE LET opcode == Fetch(c)
                    c1 == [c EXCEPT !.pc = U16(c.pc + 2)]
                IN  Execute(TimerTick(c1), opcode, rnd)

EmulateOn(c, rnd) ==
  IF c.pc >= RamSizeBytes
    THEN [c EXCEPT !.outcome = "halt"]
    ELSE IF U16(c.pc + 1) >= RamSizeBytes
           THEN Panic(c)
           ELSE LET opcode == Fetch(c)
                    c1 == [c EXCEPT !.pc = U16(c.pc + 2)]
                    c2 == Execute(c1, opcode, rnd)
                IN  IF c2.outcome = "ok" THEN TimerTick(c2) ELSE c2

(***************************************************************************)
(* The state after construction, and the three calls a host makes          *)
(***************************************************************************)
Init ==
  /\ ram = NewChip8.ram
  /\ rom = NewChip8.rom
  /\ State = NewChip8.State
  /\ Screen = NewChip8.Screen
  /\ KeyPad = NewChip8.KeyPad
  /\ regsV = NewChip8.regsV
  /\ regI = NewChip8.regI
  /\ pc = NewChip8.pc
  /\ stack = NewChip8.stack
  /\ sp = NewChip8.sp
  /\ delayTimer = NewChip8.delayTimer
  /\ soundTimer = NewChip8.soundTimer
  /\ status = "running"
  /\ last = NoCall
  /\ calls = <<>>
  /\ dtInit = 0
  /\ dtCalls = 0
  /\ stInit = 0
  /\ stCalls = 0
  /\ steps = 0
  /\ loads = 0
  /\ keyEvents = 0
  /\ drawnOn = NewChip8.Screen

LoadRom(r) ==
  /\ status = "running"
  /\ LET c == LoadRomOn(Chip8, r)
     IN  /\ Becomes(c)
         /\ last' = [kind |-> "load", addr |-> pc, opcode |-> -1,
                     arg |-> Len(r.Data), outcome |-> c.outcome]
  /\ loads' = loads + 1
  /\ UNCHANGED <<calls, dtInit, dtCalls, stInit, stCalls, steps, keyEvents, drawnOn>>

SetKey(key, isPressed) ==
  /\ status = "running"
  /\ LET c == SetKeyOn(Chip8, key, isPressed)
     IN  /\ Becomes(c)
         /\ last' = [kind |-> "key", addr |-> pc, opcode |-> -1,
                     arg |-> key, outcome |-> c.outcome, pressed |-> isPressed]
  /\ keyEvents' = keyEvents + 1
  /\ UNCHANGED <<calls, dtInit, dtCalls, stInit, stCalls, steps, loads, drawnOn>>

\* The host writes the exported field State.
SetState(st) ==
  /\ status = "running"
  /\ Becomes([Chip8 EXCEPT !.State = st])
  /\ last' = [kind |-> "state", addr |-> pc, opcode |-> -1, arg |-> st, outcome |-> "ok"]
  /\ UNCHANGED <<calls, dtInit, dtCalls, stInit, stCalls, steps, loads, keyEvents,
                 drawnOn>>

\* main: NewRomFromFile, os.Exit(1) on its error, else NewChip8 and LoadRom.
MainLoad(name, data) ==
  /\ status = "running"
  /\ last.kind = "new"
  /\ LET f == NewRomFromFile(name, data)
         c == IF f.err THEN Fatal(Chip8) ELSE LoadRomOn(Chip8, f.rom)
     IN  /\ Becomes(c)
         /\ last' = [kind |-> "load", addr |-> pc, opcode |-> -1, arg |-> Len(data),
                     outcome |-> IF f.err THEN "rejected" ELSE c.outcome]
  /\ loads' = loads + 1
  /\ UNCHANGED <<calls, dtInit, dtCalls, stInit, stCalls, steps, keyEvents, drawnOn>>

\* The values v2.IntN(0x100) is let to return.
RandomBytes == {0, 85, 170, 255}

IsCall(op) == op >= 0 /\ Typ(op) = 2
IsReturn(op) == op >= 0 /\ Typ(op) = 0 /\ NN(op) = 238
IsFX(op, nn) == op >= 0 /\ Typ(op) = 15 /\ NN(op) = nn

Emulate ==
  /\ status = "running"
  /\ LET op == IF Fetches(Chip8) THEN Fetch(Chip8) ELSE -1
     IN  \E rnd \in (IF op >= 0 /\ Typ(op) = 12 THEN RandomBytes ELSE {0}) :
           LET c == EmulateOn(Chip8, rnd)
               done == c.outcome = "ok"
           IN  /\ Becomes(c)
               /\ last' = [kind |-> "step", addr |-> pc, opcode |-> op,
                           arg |-> rnd, outcome |-> c.outcome,
                           playSound |-> c.playSound, cells |-> c.cells]
               /\ calls' = IF done /\ IsCall(op) THEN Append(calls, [addr |-> pc, sp |-> sp])
                           ELSE IF done /\ IsReturn(op) /\ calls # <<>>
                                  THEN SubSeq(calls, 1, Len(calls) - 1)
                                  ELSE calls
               /\ IF done /\ IsFX(op, 21)
                    THEN dtInit' = c.delayTimer /\ dtCalls' = 0
                    ELSE dtInit' = dtInit /\ dtCalls' = dtCalls + 1
               /\ IF done /\ IsFX(op, 24)
                    THEN stInit' = c.soundTimer /\ stCalls' = 0
                    ELSE stInit' = stInit /\ stCalls' = stCalls + 1
               /\ drawnOn' = IF op >= 0 /\ Typ(op) = 13 THEN Screen ELSE drawnOn
  /\ steps' = steps + 1
  /\ UNCHANGED <<loads, keyEvents>>

\* Emulate for runs without end: the same call, with the records of past calls
\* left alone and steps counting modulo 2, so that every call is a step of the
\* behaviour and the states are finitely many.
EmulateForever ==
  /\ status = "running"
  /\ LET op == IF Fetches(Chip8) THEN Fetch(Chip8) ELSE -1
     IN  \E rnd \in (IF op >= 0 /\ Typ(op) = 12 THEN RandomBytes ELSE {0}) :
           LET c == EmulateOn(Chip8, rnd)
           IN  /\ Becomes(c)
               /\ last' = [kind |-> "step", addr |-> pc, opcode |-> op,
                           arg |-> rnd, outcome |-> c.outcome,
                           playSound |-> c.playSound, cells |-> c.cells]
               /\ drawnOn' = IF op >= 0 /\ Typ(op) = 13 THEN Screen ELSE drawnOn
  /\ steps' = (steps + 1) % 2
  /\ UNCHANGED <<calls, dtInit, dtCalls, stInit, stCalls, loads, keyEvents>>

(***************************************************************************)
(* Programs                                                                *)
(***************************************************************************)
Ins(typ, x, y, n) == <<typ * 16 + x, y * 16 + n>>
InsNN(typ, x, nn) == <<typ * 16 + x, nn>>
InsNNN(typ, nnn) == <<typ * 16 + (nnn \div 256), nnn % 256>>
Rom(name, data) == [Name |-> name, Data |-> data]

(***************************************************************************)
(* The arithmetic instructions 8XY4 .. 8XYE on chosen registers and values *)
(***************************************************************************)
AluSteps == 3
AluX == {0, 1, 14}
AluY == {0, 1, 14, 15}
AluVals == {0, 1, 127, 128, 255}
AluOps == {4, 5, 6, 7, 14}

\* Vy = b; Vx = a; 8xyN
AluRom(x, y, a, b, n) ==
  Rom("alu", InsNN(6, y, b) \o InsNN(6, x, a) \o Ins(8, x, y, n))

AluRoms ==
  {AluRom(t[1], t[2], t[3], t[4], t[5]) :
     t \in AluX \X AluY \X AluVals \X AluVals \X AluOps}

NextAlu ==
  \/ loads = 0 /\ \E r \in AluRoms : LoadRom(r)
  \/ loads > 0 /\ steps < AluSteps /\ Emulate

SpecAlu == Init /\ [][NextAlu]_vars

\* The call made last was an Emulate that fetched and executed the 8xyN
\* instruction with low nibble n to its end; its register fields.
Executed8(n) ==
  /\ last.kind = "step"
  /\ last.outcome = "ok"
  /\ Typ(last.opcode) = 8
  /\ N(last.opcode) = n
LastX == X(last.opcode)
LastY == Y(last.opcode)
Flag(cond) == IF cond THEN 1 ELSE 0

\* C5: a step executing 8xy4 with x in 0..E, whatever y (F and x included),
\* leaves VF = 1 if Vx + Vy > 255 and 0 otherwise, and Vx = (Vx + Vy) mod 256,
\* for the values Vx, Vy held before the step.
C5_Add_AllY ==
  [][ (Executed8(4)' /\ LastX' # 15) =>
        LET a == regsV[LastX']
            b == regsV[LastY']
        IN  /\ regsV'[15] = Flag(a + b > 255)
            /\ regsV'[LastX'] = (a + b) % 256 ]_vars

\* C6: a step executing 8xy5 with x in 0..E, whatever y, leaves VF = 1 if
\* Vx >= Vy and 0 otherwise, and Vx = (Vx - Vy) mod 256.
C6_Sub_AllY ==
  [][ (Executed8(5)' /\ LastX' # 15) =>
        LET a == regsV[LastX']
            b == regsV[LastY']
        IN  /\ regsV'[15] = Flag(a >= b)
            /\ regsV'[LastX'] = (a - b) % 256 ]_vars

\* C7: a step executing 8xy7 with x in 0..E, whatever y, leaves VF = 1 if
\* Vy >= Vx and 0 otherwise, and Vx = (Vy - Vx) mod 256.
C7_SubN_AllY ==
  [][ (Executed8(7)' /\ LastX' # 15) =>
        LET a == regsV[LastX']
            b == regsV[LastY']
        IN  /\ regsV'[15] = Flag(b >= a)
            /\ regsV'[LastX'] = (b - a) % 256 ]_vars

\* C8 as stated: a step executing 8xy6 with x in 0..E leaves VF = Vx mod 2,
\* Vx = floor(Vx / 2), and Vy unmodified for every y.
C8_Shr_VyKept ==
  [][ (Executed8(6)' /\ LastX' # 15) =>
        LET a == regsV[LastX']
        IN  /\ regsV'[15] = a % 2
            /\ regsV'[LastX'] = a \div 2
            /\ regsV'[LastY'] = regsV[LastY'] ]_vars

\* C8 as amended: a step executing 8xy6 with x in 0..E leaves VF = Vx mod 2 and
\* Vx = floor(Vx / 2), a result that does not depend on Vy, and modifies no
\* register other than Vx and VF (so Vy is kept unless y is x or F).
C8_Shr ==
  [][ (Executed8(6)' /\ LastX' # 15) =>
        LET a == regsV[LastX']
        IN  /\ regsV'[15] = a % 2
            /\ regsV'[LastX'] = a \div 2
            /\ \A r \in 0 .. 14 : r # LastX' => regsV'[r] = regsV[r] ]_vars

\* An 8xy6 was executed on an odd Vx >= 128 with another register y holding
\* a value the shift would not produce.
C8_Witness ==
  /\ Executed8(6)
  /\ LastX # 15 /\ LastY \notin {LastX, 15}
  /\ regsV[LastX] = 127 /\ regsV[15] = 1 /\ regsV[LastY] = 128

\* C9: a step executing 8xyE with x in 0..E leaves VF = 1 if Vx >= 128 and 0
\* otherwise, and Vx = (2 * Vx) mod 256, for the Vx held before the step.
C9_Shl ==
  [][ (Executed8(14)' /\ LastX' # 15) =>
        LET a == regsV[LastX']
        IN  /\ regsV'[15] = Flag(a >= 128)
            /\ regsV'[LastX'] = (2 * a) % 256 ]_vars

\* An 8xyE was executed on Vx = 255 with y = F: bit 7 went to VF, Vx wrapped.
C9_Witness ==
  /\ Executed8(14)
  /\ LastX # 15 /\ LastY = 15
  /\ regsV[LastX] = 254 /\ regsV[15] = 1

(***************************************************************************)
(* Subroutine calls and returns                                            *)
(***************************************************************************)
StackSteps == 20
MaxDist == 4

\* k calls, each to the instruction that follows it, then a return.
RECURSIVE ChainCalls(_, _)
ChainCalls(k, i) ==
  IF i >= k THEN <<>>
  ELSE InsNNN(2, EntryPoint + 2 * (i + 1)) \o ChainCalls(k, i + 1)
ChainRom(k) == Rom("chain", ChainCalls(k, 0) \o InsNNN(0, 238))

\* A call d instructions ahead, where a return stands; no-ops between.
RECURSIVE NoOps(_)
NoOps(k) == IF k <= 0 THEN <<>> ELSE <<0, 0>> \o NoOps(k - 1)
CallRetRom(d) ==
  Rom("callret", InsNNN(2, EntryPoint + 2 * d) \o NoOps(d - 1) \o InsNNN(0, 238))

\* A subroutine that calls itself.
SelfCallRom == Rom("selfcall", InsNNN(2, EntryPoint))

\* The program of TestChip8_Emulate/2NNN_00EE.
TestCallRom == Rom("test", <<34, 4, 0, 224, 96, 120, 0, 238>>)

\* 0x200: call 0x204; 0x202: jump 0x20A; 0x204: call 0x208; 0x206: return;
\* 0x208: return; 0x20A: return.
NestedRom ==
  Rom("nested", InsNNN(2, 516) \o InsNNN(1, 522) \o InsNNN(2, 520)
                \o InsNNN(0, 238) \o InsNNN(0, 238) \o InsNNN(0, 238))

StackRoms ==
  {ChainRom(k) : k \in 0 .. StackMaxSize + 1}
  \cup {CallRetRom(d) : d \in 1 .. MaxDist}
  \cup {SelfCallRom, TestCallRom, NestedRom}

NextStack ==
  \/ loads = 0 /\ \E r \in StackRoms : LoadRom(r)
  \/ loads > 0 /\ steps < StackSteps /\ Emulate

SpecStack == Init /\ [][NextStack]_vars

\* The call made last was an Emulate that fetched a 2NNN / a 00EE.
FetchedCall == last.kind = "step" /\ IsCall(last.opcode)
FetchedReturn == last.kind = "step" /\ IsReturn(last.opcode)

\* C3: sp stays in 0..16; a 2NNN succeeds exactly when sp < 16 and a 00EE
\* exactly when sp > 0; otherwise the step ends the process (the outcome "exit",
\* no other) and neither sp nor any stack slot changes.
C3_StackBounds ==
  /\ [](sp \in 0 .. StackMaxSize /\ DOMAIN stack = 0 .. StackMaxSize - 1)
  /\ [][ /\ FetchedCall' =>
              /\ (last'.outcome = "ok") <=> (sp < StackMaxSize)
              /\ (last'.outcome = "exit") <=> (sp = StackMaxSize)
              /\ last'.outcome = "exit" => (sp' = sp /\ stack' = stack)
         /\ FetchedReturn' =>
              /\ (last'.outcome = "ok") <=> (sp > 0)
              /\ (last'.outcome = "exit") <=> (sp = 0)
              /\ last'.outcome = "exit" => (sp' = sp /\ stack' = stack)
         /\ (last'.kind = "step" /\ last'.outcome = "exit") => status' = "exit" ]_vars

\* A 2NNN was fetched with all 16 slots in use and ended the process.
C3_Witness ==
  /\ FetchedCall
  /\ last.outcome = "exit"
  /\ status = "exit"
  /\ sp = StackMaxSize
  /\ Len(calls) = StackMaxSize

\* C4: a 00EE that succeeds returns to the address following the 2NNN last
\* executed and not yet returned from, and restores the sp that call found; so a
\* 2NNN at A followed at once by 00EE ends with pc = A + 2.
C4_RoundTrip ==
  [][ (FetchedReturn' /\ last'.outcome = "ok") =>
        /\ calls # <<>>
        /\ pc' = calls[Len(calls)].addr + 2
        /\ sp' = calls[Len(calls)].sp
        /\ (FetchedCall /\ last.outcome = "ok") =>
             (pc' = last.addr + 2 /\ calls[Len(calls)].addr = last.addr) ]_vars

\* The second step returned from a call made at 0x200 to an address further on.
C4_Witness ==
  /\ FetchedReturn
  /\ last.outcome = "ok"
  /\ steps = 2
  /\ last.addr > EntryPoint + 2
  /\ pc = EntryPoint + 2
  /\ sp = 0

(***************************************************************************)
(* Loading programs, at the start and again later                          *)
(***************************************************************************)
MaxLoads == 2
LoadSteps == 3

Filled(len, v) == [i \in 1 .. len |-> v]

LoadRoms ==
  { Rom("big", Filled(RomMaxSizeBytes + 1, 170)),      \* one byte too many
    Rom("max", Filled(RomMaxSizeBytes, 85)),           \* the largest that fits
    Rom("empty", <<>>),
    Rom("jump", InsNNN(1, 516) \o <<0, 0, 18, 0>>),    \* 0x200: jump 0x204; 0x204: jump 0x200
    Rom("top", InsNNN(1, 4094)),                       \* jump 0xFFE, then off the end
    Rom("far", InsNN(6, 0, 255) \o InsNNN(11, 4095)),  \* V0 = 0xFF; jump 0xFFF + V0
    Rom("set", InsNN(6, 1, 7) \o InsNNN(10, 768) \o InsNN(15, 1, 21)) }

NextLoad ==
  \/ loads < MaxLoads /\ \E r \in LoadRoms : LoadRom(r)
  \/ \E r \in LoadRoms : MainLoad(r.Name, r.Data)
  \/ steps < LoadSteps /\ Emulate

SpecLoad == Init /\ [][NextLoad]_vars

\* The call made last was a load of n bytes.
Loaded == last.kind = "load"

\* C1: a load of more than 3584 bytes is rejected and changes no memory byte,
\* nor the pc, the registers, I, the stack or the timers.
C1_OversizedRejected ==
  [][ (Loaded' /\ last'.arg > RomMaxSizeBytes) =>
        /\ last'.outcome = "rejected"
        /\ ram' = ram
        /\ pc' = pc
        /\ regsV' = regsV /\ regI' = regI
        /\ stack' = stack /\ sp' = sp
        /\ delayTimer' = delayTimer /\ soundTimer' = soundTimer ]_vars

\* C2: a load of at most 3584 bytes, from any state, puts the program at 0x200,
\* leaves every other byte of memory as it was and leaves the pc at 0x200.
C2_LoadAtEntryPoint ==
  [][ (Loaded' /\ last'.arg <= RomMaxSizeBytes) =>
        /\ last'.outcome = "ok"
        /\ pc' = EntryPoint
        /\ \A a \in 0 .. RamSizeBytes - 1 :
             ram'[a] = IF a >= EntryPoint /\ a - EntryPoint < last'.arg
                         THEN rom'.Data[a - EntryPoint + 1]
                         ELSE ram[a] ]_vars

(***************************************************************************)
(* Timers, with the keypad in play                                         *)
(***************************************************************************)
TimerSteps == 7
MaxKeyEvents == 1
TimerVals == {0, 1, 2, 255}
TimerKeys == {0, 9, 16}

TimerTails ==
  { InsNN(15, 1, 10),                      \* F10A: wait for a key
    InsNNN(1, 4094),                       \* jump 0xFFE, then off the end
    InsNN(15, 2, 7) \o InsNNN(0, 224),     \* F207: read the delay timer; 00E0
    InsNN(7, 0, 1) \o InsNNN(1, 518) }     \* V0 += 1; jump to it again

\* V0 = v; delay timer = V0; sound timer = V0; then the tail.
TimerRom(v, tail) ==
  Rom("timer", InsNN(6, 0, v) \o InsNN(15, 0, 21) \o InsNN(15, 0, 24) \o tail)

TimerRoms == {TimerRom(t[1], t[2]) : t \in TimerVals \X TimerTails}

NextTimer ==
  \/ loads = 0 /\ \E r \in TimerRoms : LoadRom(r)
  \/ loads > 0 /\ steps < TimerSteps /\ Emulate
  \/ loads > 0 /\ keyEvents < MaxKeyEvents
       /\ \E key \in TimerKeys, isPressed \in BOOLEAN : SetKey(key, isPressed)

SpecTimer == Init /\ [][NextTimer]_vars

Halted == last.kind = "step" /\ last.outcome = "halt"

\* One timer tick applied to the timer value t.
Ticked(t) == IF t > 0 THEN t - 1 ELSE t

\* C11: a step called with pc >= 4096 executes no instruction (pc, registers, I,
\* memory, stack, sp and framebuffer are unchanged) but still ticks the timers:
\* each of the two timers that is > 0 goes down by 1.
C11_HaltedStillTicks ==
  [][ Halted' =>
        /\ pc >= RamSizeBytes
        /\ pc' = pc /\ regsV' = regsV /\ regI' = regI /\ ram' = ram
        /\ stack' = stack /\ sp' = sp /\ Screen' = Screen
        /\ delayTimer' = Ticked(delayTimer)
        /\ soundTimer' = Ticked(soundTimer) ]_vars

\* C23: the signal to start the tone is raised on the step in which the sound
\* timer goes from zero to non-zero and on no other; in particular none is
\* raised on the step in which the timer reaches 0, so that after every step
\* the tone has been asked for exactly when the sound timer is > 0.
C23_ToneWhileSounding ==
  [][ (last'.kind = "step" /\ last'.outcome = "ok") =>
        /\ last'.playSound = (soundTimer = 0 /\ soundTimer' > 0)
        /\ (soundTimer' = 0 => ~last'.playSound) ]_vars

\* C24: the tick comes after the instruction within one step: FX07 copies into
\* Vx the delay timer held before the step, and a step that executes FX15
\* (FX18) ends with the delay (sound) timer at max(Vx - 1, 0).
C24_TickAfterExecute ==
  [][ (last'.kind = "step" /\ last'.opcode >= 0 /\ Typ(last'.opcode) = 15) =>
        LET x == X(last'.opcode)
        IN  /\ NN(last'.opcode) = 7 =>
                 regsV'[x] = delayTimer /\ delayTimer' = Ticked(delayTimer)
            /\ NN(last'.opcode) = 21 => delayTimer' = Max(regsV[x] - 1, 0)
            /\ NN(last'.opcode) = 24 => soundTimer' = Max(regsV[x] - 1, 0) ]_vars

\* F207 read 253 from a delay timer that the same step left at 252.
C24_Witness ==
  /\ last.kind = "step" /\ IsFX(last.opcode, 7)
  /\ regsV[2] = 253 /\ delayTimer = 252 /\ regsV[0] = 255

\* C30: a step that does not execute FX15 leaves the delay timer at or below
\* its previous value, a step that does not execute FX18 does so for the sound
\* timer, and a timer that is 0 stays 0; LoadRom and SetKey move neither.
C30_TimersNeverRise ==
  [][ /\ last'.kind # "step" => delayTimer' = delayTimer /\ soundTimer' = soundTimer
      /\ (last'.kind = "step" /\ ~IsFX(last'.opcode, 21)) =>
           delayTimer' <= delayTimer /\ delayTimer' >= 0
      /\ (last'.kind = "step" /\ ~IsFX(last'.opcode, 24)) =>
           soundTimer' <= soundTimer /\ soundTimer' >= 0 ]_vars

\* Both timers, set from V0 = 2, have run out and have stayed at 0 for a step.
C30_Witness ==
  /\ last.kind = "step" /\ last.outcome = "ok" /\ steps >= 6
  /\ regsV[0] = 2 /\ delayTimer = 0 /\ soundTimer = 0

(***************************************************************************)
(* FX0A: the wait for a key                                                *)
(***************************************************************************)
WaitSteps == 8
WaitKeyEvents == 2
WaitVals == {0, 3}
WaitKeys == {3, 9}

\* V0 = v; both timers = V0; V1 = 0x77; F10A; V1 += 1; jump back to the F10A.
WaitRom(v) ==
  Rom("wait", InsNN(6, 0, v) \o InsNN(15, 0, 21) \o InsNN(15, 0, 24)
                \o InsNN(6, 1, 119) \o InsNN(15, 1, 10)
                \o InsNN(7, 1, 1) \o InsNNN(1, 520))

WaitRoms == {WaitRom(v) : v \in WaitVals}

NextWait ==
  \/ loads = 0 /\ \E r \in WaitRoms : LoadRom(r)
  \/ loads > 0 /\ steps < WaitSteps /\ Emulate
  \/ loads > 0 /\ keyEvents < WaitKeyEvents
       /\ \E key \in WaitKeys, isPressed \in BOOLEAN : SetKey(key, isPressed)

SpecWait == Init /\ [][NextWait]_vars

\* The call made last was an Emulate that fetched an FX0A.
FetchedWait == last.kind = "step" /\ IsFX(last.opcode, 10)

\* C12: FX0A with no key pressed leaves the pc at the address of the FX0A (net
\* change 0), leaves every register, I, memory, the stack, sp and the
\* framebuffer as they were, and so the next step fetches the same FX0A again.
C12_WaitRepeats ==
  [][ (FetchedWait' /\ PressedKeys(Chip8) = {}) =>
        /\ last'.outcome = "wait"
        /\ pc' = last'.addr /\ pc' = pc
        /\ regsV' = regsV /\ regI' = regI /\ ram' = ram
        /\ stack' = stack /\ sp' = sp /\ Screen' = Screen
        /\ Fetch(Chip8') = last'.opcode ]_vars

\* The machine waited twice in a row at the same FX0A, Vx still 0x77.
C12_Witness ==
  /\ FetchedWait /\ last.outcome = "wait"
  /\ steps >= 6 /\ pc = 520 /\ regsV[1] = 119

\* C13: a step that waits at FX0A with no key pressed still ticks the timers:
\* each timer that is > 0 goes down by 1.
C13_WaitStillTicks ==
  [][ (FetchedWait' /\ PressedKeys(Chip8) = {}) =>
        /\ delayTimer' = Ticked(delayTimer)
        /\ soundTimer' = Ticked(soundTimer) ]_vars

\* C14: FX0A with at least one key pressed sets Vx to the smallest pressed
\* index and leaves the pc 2 above the FX0A, whether or not the machine waited
\* there before.
C14_KeyTaken ==
  [][ (FetchedWait' /\ PressedKeys(Chip8) # {}) =>
        /\ last'.outcome = "ok"
        /\ \A k \in PressedKeys(Chip8) : regsV'[X(last'.opcode)] <= k
        /\ regsV'[X(last'.opcode)] \in PressedKeys(Chip8)
        /\ pc' = last'.addr + 2 ]_vars

\* Keys 3 and 9 are both down and the FX0A, after a wait, stored 3.
C14_Witness ==
  /\ FetchedWait /\ last.outcome = "ok"
  /\ KeyPad[3] /\ KeyPad[9] /\ regsV[1] = 3
  /\ steps >= 6 /\ pc = 522

(***************************************************************************)
(* DXYN: one sprite drawn, then another drawn twice at the same place      *)
(***************************************************************************)
DrawSteps == 8
DrawRegs == {<<0, 1>>, <<15, 1>>}
DrawXs == {2, 60, 70, 255}
DrawYs == {1, 30, 33, 255}
DrawNs == {0, 1, 5, 15}
DrawSprites == {75, 512, 4090}    \* the glyph F, the program itself, the end of ram

\* VF = 7; Vy = vy; Vx = vx; I = glyph 0; draw; I = src; draw; draw.
DrawRom(xy, vx, vy, n, src) ==
  Rom("draw", InsNN(6, 15, 7) \o InsNN(6, xy[2], vy) \o InsNN(6, xy[1], vx)
                \o InsNNN(10, 0) \o Ins(13, xy[1], xy[2], n)
                \o InsNNN(10, src) \o Ins(13, xy[1], xy[2], n)
                \o Ins(13, xy[1], xy[2], n))

DrawRoms ==
  {DrawRom(t[1], t[2], t[3], t[4], t[5]) :
     t \in DrawRegs \X DrawXs \X DrawYs \X DrawNs \X DrawSprites}

NextDraw ==
  \/ loads = 0 /\ \E r \in DrawRoms : LoadRom(r)
  \/ loads > 0 /\ steps < DrawSteps /\ Emulate

SpecDraw == Init /\ [][NextDraw]_vars

\* The call made last was an Emulate that fetched a DXYN and ran it to its end.
Drew == last.kind = "step" /\ last.opcode >= 0 /\ Typ(last.opcode) = 13
          /\ last.outcome = "ok"

\* The cells of the framebuffer that differ between two of its values.
Changed(s, t) == {p \in 0 .. ScreenSize - 1 : s[p] # t[p]}

\* The origin of the draw of opcode op in the registers v.
OriginX(v, op) == v[X(op)] % ScreenWidth
OriginY(v, op) == v[Y(op)] % ScreenHeight

\* C15: the same DXYN (x # F, y # F) executed twice, with I, Vx, Vy and the
\* sprite bytes unchanged in between, leaves every framebuffer cell as it was
\* before the first of the two draws, clipped positions included.
C15_DrawTwice ==
  [][ ( /\ Drew /\ Drew' /\ last'.opcode = last.opcode
        /\ X(last.opcode) # 15 /\ Y(last.opcode) # 15 )
        => Screen' = drawnOn ]_vars

\* The second of two equal draws put back a framebuffer that was not blank,
\* with the sprite clipped at the right edge.
C15_Witness ==
  /\ Drew /\ steps = 8 /\ X(last.opcode) = 0
  /\ Changed(Screen, drawnOn) # {}
  /\ Changed(Screen, NewChip8.Screen) # {}
  /\ OriginX(regsV, last.opcode) = 60

\* C16: a DXYN with origin (x0, y0) = (Vx mod 64, Vy mod 32) changes only cells
\* in columns x0 .. min(x0 + 7, 63) and rows y0 .. min(y0 + n - 1, 31): nothing
\* wraps to column 0, to the next row or to row 0.
C16_DrawClipped ==
  [][ (last'.kind = "step" /\ last'.opcode >= 0 /\ Typ(last'.opcode) = 13) =>
        LET x0 == OriginX(regsV, last'.opcode)
            y0 == OriginY(regsV, last'.opcode)
            n == N(last'.opcode)
        IN  \A p \in Changed(Screen, Screen') :
              /\ p % ScreenWidth >= x0
              /\ p % ScreenWidth <= Min(x0 + 7, ScreenWidth - 1)
              /\ p \div ScreenWidth >= y0
              /\ p \div ScreenWidth <= Min(y0 + n - 1, ScreenHeight - 1) ]_vars

\* A 15-row draw at column 63, row 30 changed cells, all of them at (63, 30..31).
C16_Witness ==
  /\ Drew /\ N(last.opcode) = 15
  /\ OriginX(regsV, last.opcode) = 63 /\ OriginY(regsV, last.opcode) = 30
  /\ Changed(Screen, drawnOn) # {}

\* C17: after a DXYN, VF = 1 if some cell that was set before the draw is unset
\* after it and VF = 0 otherwise, whatever VF held (n = 0 gives 0); I and the
\* registers other than VF are unchanged; each cell of the sprite that is on
\* the screen is its old value XOR the sprite bit, bit 7 leftmost.
C17_DrawFlag ==
  [][ Drew' =>
        LET op == last'.opcode
            x0 == OriginX(regsV, op)
            y0 == OriginY(regsV, op)
        IN  /\ regsV'[15] = Flag(\E p \in 0 .. ScreenSize - 1 : Screen[p] /\ ~Screen'[p])
            /\ regI' = regI
            /\ \A r \in 0 .. 14 : regsV'[r] = regsV[r]
            /\ \A i \in 0 .. N(op) - 1, k \in 0 .. 7 :
                 (y0 + i < ScreenHeight /\ x0 + k < ScreenWidth) =>
                   LET p == (y0 + i) * ScreenWidth + x0 + k
                   IN  Screen'[p] = (Screen[p] # (Bit(ram[regI + i], 7 - k) = 1)) ]_vars

\* A draw over a lit screen unset some cells and set or kept others: VF = 1.
C17_Witness ==
  /\ Drew /\ regsV[15] = 1
  /\ \E p \in 0 .. ScreenSize - 1 : drawnOn[p] /\ ~Screen[p]
  /\ \E p \in 0 .. ScreenSize - 1 : ~drawnOn[p] /\ Screen[p]

\* A draw of no rows cleared the 7 that VF held.
C17_WitnessNoRows ==
  /\ Drew /\ N(last.opcode) = 0 /\ steps = 5 /\ regsV[15] = 0

\* C34: every framebuffer cell that a DXYN reads or writes has a row of at most
\* 31 and a column of at most 63, so that its index row * 64 + column lies in
\* 0 .. 2047, whatever Vx, Vy, n and the sprite bytes are.
C34_CellsInsideScreen ==
  [][ (last'.kind = "step" /\ last'.opcode >= 0 /\ Typ(last'.opcode) = 13)
        => \A cell \in last'.cells :
             /\ cell[1] \in 0 .. ScreenHeight - 1
             /\ cell[2] \in 0 .. ScreenWidth - 1
             /\ cell[1] * ScreenWidth + cell[2] \in 0 .. ScreenSize - 1 ]_vars

\* Vx = Vy = 255 and n = 15: the draw touched the last cell of the framebuffer
\* and no other.
C34_Witness ==
  /\ Drew /\ N(last.opcode) = 15
  /\ regsV[X(last.opcode)] = 255 /\ regsV[Y(last.opcode)] = 255
  /\ last.cells = {<<ScreenHeight - 1, ScreenWidth - 1>>}

\* Vx = 70, Vy = 33 and n = 15: the draw touched 15 rows of 8 columns from
\* row 1, column 6.
C34_WitnessMasked ==
  /\ Drew /\ N(last.opcode) = 15
  /\ regsV[X(last.opcode)] = 70 /\ regsV[Y(last.opcode)] = 33
  /\ last.cells = (1 .. 15) \X (6 .. 13)

(***************************************************************************)
(* Opcodes outside the instruction set                                     *)
(***************************************************************************)
UnknownSteps == 8
UnknownKeyEvents == 1
UnknownKeys == {0, 16}

UnknownOps ==
  { InsNNN(0, 0), InsNNN(0, 291), InsNNN(0, 480), InsNNN(0, 750), InsNNN(0, 4095),
    Ins(5, 0, 1, 1), Ins(5, 0, 1, 15), Ins(9, 0, 1, 1), Ins(9, 0, 0, 15),
    Ins(8, 0, 1, 8), Ins(8, 0, 1, 13), Ins(8, 0, 1, 15),
    InsNN(14, 0, 0), InsNN(14, 0, 159), InsNN(14, 1, 160), InsNN(14, 0, 255),
    InsNN(15, 0, 0), InsNN(15, 0, 11), InsNN(15, 1, 102), InsNN(15, 1, 255) }

\* V0 = 3; both timers = V0; I = glyph 0; draw it; call the next address; op.
UnknownRom(op) ==
  Rom("unknown", InsNN(6, 0, 3) \o InsNN(15, 0, 21) \o InsNN(15, 0, 24)
                   \o InsNNN(10, 0) \o Ins(13, 0, 0, 5) \o InsNNN(2, 524) \o op)

UnknownRoms == {UnknownRom(op) : op \in UnknownOps}

NextUnknown ==
  \/ loads = 0 /\ \E r \in UnknownRoms : LoadRom(r)
  \/ loads > 0 /\ steps < UnknownSteps /\ Emulate
  \/ loads > 0 /\ keyEvents < UnknownKeyEvents
       /\ \E key \in UnknownKeys, isPressed \in BOOLEAN : SetKey(key, isPressed)

SpecUnknown == Init /\ [][NextUnknown]_vars

\* The opcodes the instruction set does not define.
Unrecognized(op) ==
  \/ Typ(op) = 0 /\ op \notin {224, 238}
  \/ Typ(op) \in {5, 9} /\ N(op) # 0
  \/ Typ(op) = 8 /\ N(op) \notin (0 .. 7) \cup {14}
  \/ Typ(op) = 14 /\ NN(op) \notin {158, 161}
  \/ Typ(op) = 15 /\ NN(op) \notin {7, 10, 21, 24, 30, 41, 51, 85, 101}

\* A step that advances the pc by 2, ticks the timers and does nothing else.
NoOperation ==
  /\ last'.outcome = "ok" /\ status' = "running"
  /\ pc' = last'.addr + 2
  /\ regsV' = regsV /\ regI' = regI /\ ram' = ram
  /\ stack' = stack /\ sp' = sp /\ Screen' = Screen /\ KeyPad' = KeyPad
  /\ delayTimer' = Ticked(delayTimer)
  /\ soundTimer' = Ticked(soundTimer)

\* C18: a step that fetches an opcode outside the instruction set (0nnn other
\* than 00E0 and 00EE, 5xyN and 9xyN with N # 0, 8xyN with N not in 0..7 or E,
\* Exnn other than Ex9E and ExA1, Fxnn not listed) advances the pc by 2, ticks
\* the timers and changes nothing else; the machine keeps running.
C18_UnknownIsNoOp ==
  [][ (last'.kind = "step" /\ last'.opcode >= 0 /\ Unrecognized(last'.opcode))
        => NoOperation ]_vars

\* C25: the framebuffer changes only in a step that executes 00E0, after which
\* all 2048 cells are false, or DXYN; every other opcode, LoadRom and SetKey
\* leave all cells as they were.
C25_ScreenFrame ==
  [][ /\ Screen' # Screen =>
           /\ last'.kind = "step"
           /\ last'.opcode = 224 \/ (last'.opcode >= 0 /\ Typ(last'.opcode) = 13)
      /\ (last'.kind = "step" /\ last'.opcode = 224) =>
           \A p \in 0 .. ScreenSize - 1 : ~Screen'[p] ]_vars

(***************************************************************************)
(* SetKey, with keys inside and outside the keypad                         *)
(***************************************************************************)
PadSteps == 6
PadKeyEvents == 2
PadKeys == {0, 15, 16, 255}

NextPad ==
  \/ loads = 0 /\ \E r \in WaitRoms : LoadRom(r)
  \/ loads > 0 /\ steps < PadSteps /\ Emulate
  \/ loads > 0 /\ keyEvents < PadKeyEvents
       /\ \E key \in PadKeys, isPressed \in BOOLEAN : SetKey(key, isPressed)

SpecPad == Init /\ [][NextPad]_vars

\* C19: SetKey(index, pressed) with index < 16 sets KeyPad[index] to pressed and
\* changes no other key and nothing else of the machine; with index >= 16 it
\* returns normally and changes nothing at all.
C19_SetKey ==
  [][ last'.kind = "key" =>
        /\ last'.outcome = "ok" /\ status' = "running"
        /\ DOMAIN KeyPad' = 0 .. KeyPadSize - 1
        /\ \A k \in 0 .. KeyPadSize - 1 :
             KeyPad'[k] = IF k = last'.arg THEN last'.pressed ELSE KeyPad[k]
        /\ UNCHANGED <<ram, rom, State, Screen, regsV, regI, pc, stack, sp,
                       delayTimer, soundTimer>> ]_vars

\* With key F down, SetKey(255, true) was called and key F alone is down.
C19_Witness ==
  /\ last.kind = "key" /\ last.arg = 255 /\ last.pressed
  /\ PressedKeys(Chip8) = {15}

(***************************************************************************)
(* The conditional skips 3XNN, 4XNN, 5XY0 and 9XY0                         *)
(***************************************************************************)
SkipSteps == 4
SkipVals == {0, 17, 128, 255}

\* The skips on V0 = a and V1 = b: against the byte b, against V1, against itself.
SkipOps(b) ==
  { InsNN(3, 0, b), InsNN(4, 0, b), Ins(5, 0, 1, 0), Ins(9, 0, 1, 0),
    Ins(5, 1, 1, 0), Ins(9, 0, 0, 0) }

\* V0 = a; V1 = b; the skip; V2 = 0x12; V3 = 0x13.
SkipRom(a, b, op) ==
  Rom("skip", InsNN(6, 0, a) \o InsNN(6, 1, b) \o op
                \o InsNN(6, 2, 18) \o InsNN(6, 3, 19))

\* The program of TestChip8_Emulate/3XNN.
TestSkipRom == Rom("test", <<96, 17, 48, 17, 96, 18>>)

SkipRoms ==
  {TestSkipRom} \cup
  UNION {{SkipRom(a, b, op) : op \in SkipOps(b)} : a \in SkipVals, b \in SkipVals}

NextSkip ==
  \/ loads = 0 /\ \E r \in SkipRoms : LoadRom(r)
  \/ loads > 0 /\ steps < SkipSteps /\ Emulate

SpecSkip == Init /\ [][NextSkip]_vars

\* The condition of the skip op on the registers v.
SkipHolds(v, op) ==
  CASE Typ(op) = 3 -> v[X(op)] = NN(op)
    [] Typ(op) = 4 -> v[X(op)] # NN(op)
    [] Typ(op) = 5 -> v[X(op)] = v[Y(op)]
    [] Typ(op) = 9 -> v[X(op)] # v[Y(op)]

IsSkip(op) ==
  op >= 0 /\ (Typ(op) \in {3, 4} \/ (Typ(op) \in {5, 9} /\ N(op) = 0))

\* C20: a step executing 3xnn, 4xnn, 5xy0 or 9xy0 at address A leaves pc = A + 4
\* when its condition holds (Vx = nn, Vx # nn, Vx = Vy, Vx # Vy) and pc = A + 2
\* otherwise, and changes no register; the program 6011 3011 6012 has
\* V0 = 0x11 after three steps.
C20_Skips ==
  [][ /\ (last'.kind = "step" /\ IsSkip(last'.opcode)) =>
           /\ last'.outcome = "ok"
           /\ pc' = last'.addr + (IF SkipHolds(regsV, last'.opcode) THEN 4 ELSE 2)
           /\ regsV' = regsV /\ regI' = regI
      /\ (rom' = TestSkipRom /\ steps' = 3) => regsV'[0] = 17 ]_vars

\* A 4XNN with V0 = 128 # 255 skipped the V2 = 0x12 and the step after it set V3.
C20_Witness ==
  /\ rom \in SkipRoms /\ steps = 4 /\ ram[516] = 64
  /\ regsV[0] = 128 /\ regsV[1] = 255
  /\ regsV[2] = 0 /\ regsV[3] = 19 /\ pc = 522

(***************************************************************************)
(* The key skips EX9E and EXA1                                             *)
(***************************************************************************)
KeySkipSteps == 4
KeySkipKeyEvents == 2
KeySkipVals == {0, 9, 15, 16, 200}
KeySkipKeys == {0, 9, 15}

\* V0 = v; EX9E or EXA1 on V0; V2 = 0x12; V3 = 0x13.
KeySkipRom(v, nn) ==
  Rom("keyskip", InsNN(6, 0, v) \o InsNN(14, 0, nn)
                   \o InsNN(6, 2, 18) \o InsNN(6, 3, 19))

KeySkipRoms == {KeySkipRom(t[1], t[2]) : t \in KeySkipVals \X {158, 161}}

NextKeySkip ==
  \/ loads = 0 /\ \E r \in KeySkipRoms : LoadRom(r)
  \/ loads > 0 /\ steps < KeySkipSteps /\ Emulate
  \/ loads > 0 /\ keyEvents < KeySkipKeyEvents
       /\ \E key \in KeySkipKeys, isPressed \in BOOLEAN : SetKey(key, isPressed)

SpecKeySkip == Init /\ [][NextKeySkip]_vars

\* op is an EXNN with low byte nn.
IsEX(op, nn) == op >= 0 /\ Typ(op) = 14 /\ NN(op) = nn

\* C21: with Vx < 16, a step executing Ex9E at address A leaves pc = A + 4 if
\* KeyPad[Vx] is pressed and A + 2 otherwise, a step executing ExA1 leaves
\* pc = A + 4 if KeyPad[Vx] is not pressed and A + 2 otherwise, and neither
\* changes the keypad or a register.
C21_KeySkips ==
  [][ ( /\ last'.kind = "step"
        /\ (IsEX(last'.opcode, 158) \/ IsEX(last'.opcode, 161))
        /\ regsV[X(last'.opcode)] < KeyPadSize ) =>
        LET down == KeyPad[regsV[X(last'.opcode)]]
            skips == IF IsEX(last'.opcode, 158) THEN down ELSE ~down
        IN  /\ last'.outcome = "ok"
            /\ pc' = last'.addr + (IF skips THEN 4 ELSE 2)
            /\ KeyPad' = KeyPad /\ regsV' = regsV /\ regI' = regI ]_vars

\* With key 9 down and key 0 up, an E09E on V0 = 9 skipped the V2 = 0x12.
C21_Witness ==
  /\ last.kind = "step" /\ IsEX(last.opcode, 158)
  /\ regsV[0] = 9 /\ KeyPad[9] /\ ~KeyPad[0] /\ pc = last.addr + 4

\* The low byte of the other of the two opcodes EX9E and EXA1.
OtherEX(op) == IF NN(op) = 158 THEN 161 ELSE 158

\* C36: whatever byte Vx holds, 16..255 included, exactly one of Ex9E and ExA1
\* on register x skips the next instruction: a step executing one of them
\* skips exactly when the other, executed at the same address on the same
\* machine, does not.
C36_Complementary ==
  [][ ( /\ last'.kind = "step"
        /\ (IsEX(last'.opcode, 158) \/ IsEX(last'.opcode, 161)) ) =>
        LET fetched == [Chip8 EXCEPT !.pc = U16(pc + 2)]
            other == OpEXNN(fetched, X(last'.opcode), OtherEX(last'.opcode))
        IN  (pc' = last'.addr + 4) # (other.pc = last'.addr + 4) ]_vars

(***************************************************************************)
(* The instructions that read the keypad, with keys going down and up      *)
(***************************************************************************)
KeyReadSteps == 6
KeyReadKeyEvents == 2

NextKeyRead ==
  \/ loads = 0 /\ \E r \in KeySkipRoms \cup WaitRoms : LoadRom(r)
  \/ loads > 0 /\ steps < KeyReadSteps /\ Emulate
  \/ loads > 0 /\ keyEvents < KeyReadKeyEvents
       /\ \E key \in KeySkipKeys, isPressed \in BOOLEAN : SetKey(key, isPressed)

SpecKeyRead == Init /\ [][NextKeyRead]_vars

\* C26: no Emulate call, whatever it executes (Ex9E, ExA1 and Fx0A included),
\* changes any of the 16 key states; the keypad changes through SetKey only.
C26_KeyPadFrame ==
  [][ /\ last'.kind = "step" => KeyPad' = KeyPad
      /\ KeyPad' # KeyPad => last'.kind = "key" ]_vars

\* FX0A took key 9 into V1 and key 9 is still down.
C26_Witness ==
  /\ FetchedWait /\ last.outcome = "ok"
  /\ regsV[1] = 9 /\ KeyPad[9]

(***************************************************************************)
(* 7XNN on chosen registers and values                                     *)
(***************************************************************************)
AddSteps == 3
AddX == {0, 7, 14}
AddVals == {0, 1, 128, 255}
AddFlags == {0, 1, 7}

\* VF = f; Vx = a; Vx += nn
AddRom(x, a, nn, f) ==
  Rom("add", InsNN(6, 15, f) \o InsNN(6, x, a) \o InsNN(7, x, nn))

AddRoms ==
  {AddRom(t[1], t[2], t[3], t[4]) : t \in AddX \X AddVals \X AddVals \X AddFlags}

NextAdd ==
  \/ loads = 0 /\ \E r \in AddRoms : LoadRom(r)
  \/ loads > 0 /\ steps < AddSteps /\ Emulate

SpecAdd == Init /\ [][NextAdd]_vars

\* C28: a step executing 7xnn with x in 0..E leaves Vx = (Vx + nn) mod 256 and
\* every other register, VF included, as it was, also when Vx + nn > 255.
C28_AddNoCarry ==
  [][ (last'.kind = "step" /\ last'.opcode >= 0 /\ Typ(last'.opcode) = 7
         /\ X(last'.opcode) # 15) =>
        LET x == X(last'.opcode)
        IN  /\ regsV'[x] = (regsV[x] + NN(last'.opcode)) % 256
            /\ \A r \in 0 .. 15 : r # x => regsV'[r] = regsV[r] ]_vars

\* 255 + 255 left 254 in VE and VF still 7.
C28_Witness ==
  /\ last.kind = "step" /\ last.opcode = 7 * 4096 + 14 * 256 + 255
  /\ regsV[14] = 254 /\ regsV[15] = 7

(***************************************************************************)
(* FX55 and FX65: registers stored, changed, and loaded back               *)
(***************************************************************************)
StoreSteps == 8
StoreX == {0, 1, 2, 15}
StoreVals == {<<0, 90, 255>>, <<255, 1, 2>>}
StoreAddrs == {512, 768, 4080, 4093, 4095}

\* V0, V1, V2 = v; I = addr; Fx55; V0 = 0xEE; V1 = 0xDD; Fx65.
StoreRom(x, v, addr) ==
  Rom("store", InsNN(6, 0, v[1]) \o InsNN(6, 1, v[2]) \o InsNN(6, 2, v[3])
                 \o InsNNN(10, addr) \o InsNN(15, x, 85)
                 \o InsNN(6, 0, 238) \o InsNN(6, 1, 221) \o InsNN(15, x, 101))

StoreRoms == {StoreRom(t[1], t[2], t[3]) : t \in StoreX \X StoreVals \X StoreAddrs}

NextStore ==
  \/ loads = 0 /\ \E r \in StoreRoms : LoadRom(r)
  \/ loads > 0 /\ steps < StoreSteps /\ Emulate

SpecStore == Init /\ [][NextStore]_vars

\* op is the FXnn with low byte nn, and I + x is inside ram.
InRam(op, nn) == IsFX(op, nn) /\ regI + X(op) <= RamSizeBytes - 1

\* C29: with I + x <= 4095, Fx55 writes V0..Vx to ram[I..I+x] and changes no
\* register and no other byte of ram; Fx65 loads V0..Vx from ram[I..I+x] and
\* leaves V(x+1)..VF and ram as they were; neither changes I. So the Fx65 that
\* follows the Fx55 of the same x and I, V0 and V1 overwritten in between,
\* gives V0..Vx the values they were stored with.
C29_StoreLoad ==
  [][ last'.kind = "step" =>
        /\ InRam(last'.opcode, 85) =>
             /\ last'.outcome = "ok"
             /\ \A a \in 0 .. RamSizeBytes - 1 :
                  ram'[a] = IF a >= regI /\ a <= regI + X(last'.opcode)
                              THEN regsV[a - regI] ELSE ram[a]
             /\ regsV' = regsV /\ regI' = regI
        /\ InRam(last'.opcode, 101) =>
             /\ last'.outcome = "ok"
             /\ \A r \in 0 .. 15 :
                  regsV'[r] = IF r <= X(last'.opcode) THEN ram[regI + r] ELSE regsV[r]
             /\ ram' = ram /\ regI' = regI
             /\ \A r \in 0 .. Min(X(last'.opcode), 2) : regsV'[r] = rom.Data[2 * r + 2] ]_vars

\* F265 at I = 4093 brought back 255, 1, 2 after V0 and V1 had been overwritten.
C29_Witness ==
  /\ last.kind = "step" /\ last.opcode = 15 * 4096 + 2 * 256 + 101
  /\ regI = 4093 /\ regsV[0] = 255 /\ regsV[1] = 1 /\ regsV[2] = 2
  /\ ram[4095] = 2

\* op is one of the instructions that reach ram through I.
UsesI(op) ==
  op >= 0 /\ (Typ(op) = 13 \/ IsFX(op, 51) \/ IsFX(op, 85) \/ IsFX(op, 101))

\* C33: whatever I a program reaches, the reads of Dxyn and Fx65 and the writes
\* of Fx33 and Fx55 stay at addresses 0..4095 and the step completes without a
\* fault.
C33_AccessInsideRam ==
  [][ (last'.kind = "step" /\ UsesI(last'.opcode)) =>
        last'.outcome = "ok" /\ status' = "running" ]_vars

(***************************************************************************)
(* The run state, written by the host between steps                        *)
(***************************************************************************)
PauseSteps == 5
States == {StateRunning, StatePaused, StateQuit}

NextPause ==
  \/ loads = 0 /\ \E r \in TimerRoms : LoadRom(r)
  \/ loads > 0 /\ steps < PauseSteps /\ Emulate
  \/ loads > 0 /\ steps < PauseSteps /\ last.kind # "state"
       /\ \E st \in States : SetState(st)

SpecPause == Init /\ [][NextPause]_vars

\* C22: while the run state is Paused or Quit an Emulate call does not advance
\* the machine: pc, registers, I, memory, stack, sp, timers and framebuffer are
\* as they were; only in state Running is an instruction fetched and executed.
C22_PausedDoesNotStep ==
  [][ (last'.kind = "step" /\ State \in {StatePaused, StateQuit}) =>
        /\ pc' = pc /\ regsV' = regsV /\ regI' = regI /\ ram' = ram
        /\ stack' = stack /\ sp' = sp /\ Screen' = Screen
        /\ delayTimer' = delayTimer /\ soundTimer' = soundTimer ]_vars

(***************************************************************************)
(* Emulate called for ever: the host calls it on every tick                *)
(***************************************************************************)
LiveKeyEvents == 1
LiveVals == {0, 3}
LiveKeys == {3, 16}

LiveTails ==
  { InsNN(15, 1, 10) \o InsNNN(1, 520),    \* F10A: wait for a key; jump to itself
    InsNNN(1, 4094),                       \* jump 0xFFE, then off the end
    InsNNN(1, 518),                        \* jump to itself
    InsNN(15, 2, 7) \o InsNNN(1, 518),     \* read the delay timer, again and again
    InsNN(3, 0, 0) \o InsNNN(1, 512) \o InsNNN(1, 522) }
                                           \* V0 # 0: start again and write the timers

\* V0 = v; delay timer = V0; sound timer = V0; then the tail.
LiveRom(v, tail) ==
  Rom("live", InsNN(6, 0, v) \o InsNN(15, 0, 21) \o InsNN(15, 0, 24) \o tail)

LiveRoms == {LiveRom(t[1], t[2]) : t \in LiveVals \X LiveTails}

NextLive ==
  \/ loads = 0 /\ \E r \in LiveRoms : LoadRom(r)
  \/ loads > 0 /\ EmulateForever
  \/ loads > 0 /\ keyEvents < LiveKeyEvents
       /\ \E key \in LiveKeys, isPressed \in BOOLEAN : SetKey(key, isPressed)

\* Renderer.Update calls Emulate on every tick of the host.
SpecLive == Init /\ [][NextLive]_vars /\ WF_vars(loads > 0 /\ EmulateForever)

\* The call made last was an Emulate that executed FXnn.
Wrote(nn) == last.kind = "step" /\ IsFX(last.opcode, nn) /\ last.outcome = "ok"

\* C31: if Emulate is called for ever and from some point on no FX15 (FX18) is
\* executed, the delay (sound) timer eventually is 0 and stays 0, whatever the
\* machine does meanwhile: a wait at FX0A and a halt with pc >= 4096 included.
C31_TimersRunOut ==
  /\ ([](status = "running") /\ <>[]~Wrote(21)) => <>[](delayTimer = 0)
  /\ ([](status = "running") /\ <>[]~Wrote(24)) => <>[](soundTimer = 0)

(***************************************************************************)
(* The fetch at the end of ram and at odd addresses                        *)
(***************************************************************************)
FetchSteps == 4

FetchTails ==
  { InsNNN(1, 4095), InsNNN(1, 4094), InsNNN(1, 4093), InsNNN(1, 513),
    InsNN(6, 0, 1) \o InsNNN(11, 4094),     \* V0 = 1; jump to 0xFFE + V0
    InsNN(6, 0, 255) \o InsNNN(11, 4095),   \* V0 = 255; jump to 0xFFF + V0
    InsNNN(2, 4095),                        \* call 0xFFF
    InsNNN(1, 4092) }                       \* 0000 at 0xFFC, 0xFFE, then off the end

\* The tail behind a V1 = v.
FetchRom(v, tail) == Rom("fetch", InsNN(6, 1, v) \o tail)

FetchRoms == {FetchRom(t[1], t[2]) : t \in {0, 9, 128, 255} \X FetchTails}

NextFetch ==
  \/ loads = 0 /\ \E r \in FetchRoms : LoadRom(r)
  \/ loads > 0 /\ steps < FetchSteps /\ Emulate

SpecFetch == Init /\ [][NextFetch]_vars

\* C32: whatever pc a program reaches (odd addresses and 0xFFF included), a
\* step either finds pc >= 4096 and treats the machine as halted, or fetches
\* the two bytes at pc and pc + 1, both at addresses <= 4095; it never faults
\* on the fetch.
C32_FetchInsideRam ==
  [][ last'.kind = "step" =>
        \/ pc >= RamSizeBytes /\ last'.outcome = "halt"
        \/ /\ pc + 1 <= RamSizeBytes - 1
           /\ last'.opcode = ram[pc] * 256 + ram[pc + 1]
           /\ last'.outcome # "panic" ]_vars

(***************************************************************************)
(* Which calls write ram: FX55 and FX33 through I, among other opcodes     *)
(***************************************************************************)
FrameSteps == 8
FrameKeyEvents == 1
FrameVals == {137, 255}
FrameAddrs == {75, 512, 4094}     \* the glyph F, the program, the end of ram
FrameX == {1, 15}
FrameKeys == {1, 16}

FrameTails ==
  { InsNN(15, 1, 101) \o Ins(13, 0, 1, 5),                        \* F165; D015
    InsNNN(0, 224) \o InsNN(15, 0, 30) \o InsNN(15, 1, 41),       \* 00E0; F01E; F129
    InsNN(15, 0, 21) \o InsNN(15, 0, 24) \o InsNN(15, 2, 7),      \* F015; F018; F207
    InsNNN(2, 526) \o InsNN(6, 3, 1) \o InsNNN(0, 238),           \* call; V3 = 1; 00EE
    InsNN(12, 0, 255) \o Ins(8, 0, 1, 4) \o InsNN(7, 1, 1),       \* C0FF; 8014; 7101
    InsNN(3, 0, 137) \o InsNN(4, 0, 137) \o Ins(9, 0, 1, 0),      \* 3089; 4089; 9010
    InsNN(14, 1, 158) \o InsNN(14, 1, 161) \o InsNN(15, 2, 10),   \* E19E; E1A1; F20A
    Ins(5, 0, 1, 0) \o InsNNN(11, 400) \o InsNNN(1, 512) }        \* 5010; B190; jump
                                                                  \* to the start

\* V0 = v; V1 = 1; I = addr; Fx55; F033; then the tail.
FrameRom(v, addr, x, tail) ==
  Rom("frame", InsNN(6, 0, v) \o InsNN(6, 1, 1) \o InsNNN(10, addr)
                 \o InsNN(15, x, 85) \o InsNN(15, 0, 51) \o tail)

FrameRoms ==
  {FrameRom(t[1], t[2], t[3], t[4]) :
     t \in FrameVals \X FrameAddrs \X FrameX \X FrameTails}

NextFrame ==
  \/ loads = 0 /\ \E r \in FrameRoms : LoadRom(r)
  \/ loads > 0 /\ steps < FrameSteps /\ Emulate
  \/ loads > 0 /\ keyEvents < FrameKeyEvents
       /\ \E key \in FrameKeys, isPressed \in BOOLEAN : SetKey(key, isPressed)

SpecFrame == Init /\ [][NextFrame]_vars

\* The addresses that opcode op may write, I being the index register it finds.
Writes(op) ==
  IF IsFX(op, 51) THEN regI .. regI + 2
  ELSE IF IsFX(op, 85) THEN regI .. regI + X(op)
  ELSE {}

\* C35: a step changes ram only by FX33, in the three bytes at I, I+1 and I+2,
\* or by FX55, in the x+1 bytes at I .. I+x; every other opcode, the timer tick
\* of the step and setKey leave all 4096 bytes of ram as they were.
C35_MemoryFrame ==
  [][ /\ last'.kind = "step"
          => IF Writes(last'.opcode) = {}
               THEN ram' = ram
               ELSE \A a \in 0 .. RamSizeBytes - 1 :
                      a \notin Writes(last'.opcode) => ram'[a] = ram[a]
      /\ last'.kind = "key" => ram' = ram ]_vars

\* F033 with V0 = 137 and I = 75 has left the digits 1, 3, 7 in the glyph F and
\* kept its last two bytes.
C35_Witness ==
  /\ last.kind = "step" /\ IsFX(last.opcode, 51) /\ last.outcome = "ok"
  /\ regI = 75 /\ regsV[0] = 137
  /\ ram[75] = 1 /\ ram[76] = 3 /\ ram[77] = 7 /\ ram[78] = 128 /\ ram[79] = 128

\* FF55 with I = 512 has stored V0 .. VF over the first sixteen bytes of the
\* program.
C35_WitnessStore ==
  /\ last.kind = "step" /\ IsFX(last.opcode, 85) /\ last.outcome = "ok"
  /\ X(last.opcode) = 15 /\ regI = 512
  /\ \A i \in 0 .. 15 : ram[512 + i] = regsV[i]

\* F033 with I = 4094 wrote two digits and panicked at the third.
C35_WitnessPartial ==
  /\ last.kind = "step" /\ IsFX(last.opcode, 51) /\ last.outcome = "panic"
  /\ regI = 4094 /\ regsV[0] = 137 /\ ram[4094] = 1 /\ ram[4095] = 3

\* A key was pressed and a step with both timers running followed.
C35_WitnessOther ==
  /\ last.kind = "step" /\ IsFX(last.opcode, 7) /\ last.outcome = "ok"
  /\ KeyPad[1] /\ delayTimer > 0 /\ soundTimer > 0

(***************************************************************************)
(* The machine as a host drives it: one load, then key events and steps    *)
(***************************************************************************)
MaxSteps == 6
Keys == {0, 9, 16}
Programs == StackRoms \cup TimerRoms

Next ==
  \/ loads = 0 /\ \E r \in Programs : LoadRom(r)
  \/ loads > 0 /\ steps < MaxSteps /\ Emulate
  \/ loads > 0 /\ keyEvents < MaxKeyEvents
       /\ \E key \in Keys, isPressed \in BOOLEAN : SetKey(key, isPressed)

Spec == Init /\ [][Next]_vars
====
